---- MODULE Spec2Model ----
(***************************************************************************)
(* Gexbot Sentinel backend: the store tables and the cache writers of      *)
(* backend/scheduler.py, the read/proxy handlers of backend/app.py, the    *)
(* scheduler process of backend/scheduler.py and the market-hours gate     *)
(* and publisher of backend/dashboard_image.py.                            *)
(*                                                                         *)
(* Conventions.  A Python value that may be None (and an SQL column that   *)
(* may be NULL) is an option: {} is None/NULL and {v} is the value v.  A   *)
(* JSON object is a function from its keys to its values; {} of Python,    *)
(* the object without keys, is the function with the empty domain.         *)
(***************************************************************************)
EXTENDS Integers, Sequences, FiniteSets, Bags, TLC

VARIABLES
    \* ---- the store (PostgreSQL), each table a bag of rows
    gex_snapshots, gex_major_levels, gex_max_change,
    open_conns,          \* store connections opened and not closed
    tx,                  \* the cache_chain_data call in progress, statement by statement
    \* ---- API service / direct calls of the cache writers
    call,                \* the last call made and how it ended
    \* ---- scheduler process (scheduler.py __main__)
    DB_URL, API_KEY, DISCORD_WEBHOOKS, webhook_mode, SCHEDULER_TICKERS,
    pc,
    periodic,            \* the running cycle was started by the periodic job
    idx, chain_data, maxchange_data,
    events,              \* what the processing of the current ticker has done so far
    done,                \* the tickers this cycle has finished, with their chain result
    startup_alerts,      \* startup alerts sent
    fetched,             \* an upstream request has been made
    \* ---- market-hours gate
    now, market_open

store == <<gex_snapshots, gex_major_levels, gex_max_change>>
config == <<DB_URL, API_KEY, DISCORD_WEBHOOKS, webhook_mode, SCHEDULER_TICKERS>>
sched == <<pc, periodic, idx, chain_data, maxchange_data, events, done,
           startup_alerts, fetched>>
clock == <<now, market_open>>
vars == <<store, open_conns, tx, call, config, sched, clock>>

(***************************************************************************)
(* Bounds of the model.                                                    *)
(***************************************************************************)
MaxTs == 2          \* provider timestamps are 1..MaxTs (epoch seconds)
MaxRows == 2        \* rows the direct cache calls may add to the store
MaxLeak == 1        \* connections that may be left open
MaxWebhooks == 2    \* configured webhook URLs
MaxStrikes == 2     \* strikes of a chain body handed to the trend panel

\* The symbols requests and configurations name: SPX (the API's store-backed
\* ticker), AAPL (another allow-listed symbol) and XYZ (a custom symbol).
Tickers == {"SPX", "AAPL", "XYZ"}

\* The symbols the direct calls of the cache writers are made for.
CachedTickers == {"SPX", "AAPL"}

\* The allow-list of the specification's data model; no source file holds it.
QUICK_TICKERS ==
    {"AAPL", "AMD", "AMZN", "COIN", "GLD", "GOOG", "GOOGL", "INTC", "IWM",
     "META", "MSFT", "MSTR", "MU", "NFLX", "NVDA", "PLTR", "QQQ", "SLV",
     "SOFI", "SPX", "SPY", "TLT", "TSLA", "TSM", "UNH"}

(***************************************************************************)
(* Python / SQL values.                                                    *)
(***************************************************************************)
None == {}
Some(v) == {v}
TheValue(opt) == CHOOSE v \in opt : TRUE

\* dict.get(key): None when the key is absent.
get(data, key) == IF key \in DOMAIN data THEN Some(data[key]) ELSE None

\* dict.get(key, default)
get_default(data, key, default) == IF key \in DOMAIN data THEN data[key] ELSE default

\* Truth value of "x" in "if x" for an optional dict: None and {} are false.
Truthy(opt) == opt # None /\ \A d \in opt : DOMAIN d # {}

EmptyObject == [k \in {} |-> 0]

\* json.dumps: the object's text, here the set of its "key": value members.
json_dumps(data) == {<<k, data[k]>> : k \in DOMAIN data}

\* What psycopg2 hands back for a JSONB column: the object of the stored text.
json_loads(text) ==
    [k \in {m[1] : m \in text} |-> (CHOOSE m \in text : m[1] = k)[2]]

\* PostgreSQL to_timestamp(epoch seconds): a timestamptz, microseconds since
\* the epoch; to_timestamp(NULL) is NULL.
to_timestamp(opt) == {s * 1000000 : s \in opt}

\* datetime.timestamp(): epoch seconds of a timestamptz.
datetime_timestamp(us) == us \div 1000000

(***************************************************************************)
(* Provider payloads (chain/zero and maxchange endpoints).                 *)
(***************************************************************************)
Variants == {1, 2}

ChainPayload(ts, v) ==
    [timestamp |-> ts, spot |-> 100, sum_gex_vol |-> 10 * v, sum_gex_oi |-> 7 * v,
     zero_gamma |-> 98 + v, major_pos_vol |-> 101, major_pos_oi |-> 102,
     major_neg_vol |-> 99, major_neg_oi |-> 98,
     strikes |-> << <<99, 0 - 4 * v, 3>>, <<101, 2 * v, 0 - 1>> >>]

MaxchangePayload(ts, v) ==
    [timestamp |-> ts, current |-> <<100, 5 * v>>, one |-> <<101, 0 - v>>,
     five |-> <<99, 2>>, ten |-> <<99, 1>>, fifteen |-> <<100, 0>>,
     thirty |-> <<102, 0 - 3>>]

\* A maxchange body without its 'current' pair.
MalformedMaxchange(ts) ==
    [timestamp |-> ts, one |-> <<101, 1>>, five |-> <<99, 2>>, thirty |-> <<102, 3>>]

\* The valid bodies: one per timestamp, and for the first timestamp a second
\* body with other content.
ValidChain == {ChainPayload(ts, 1) : ts \in 1..MaxTs} \cup {ChainPayload(1, v) : v \in Variants}
ValidMaxchange == {MaxchangePayload(ts, 1) : ts \in 1..MaxTs}
ChainBodies == ValidChain \cup {EmptyObject}
MaxchangeBodies == ValidMaxchange \cup {MalformedMaxchange(1), EmptyObject}

\* Bodies the provider answers a proxied request with.
ProxiedChain == {ChainPayload(1, 1), EmptyObject}
ProxiedMaxchange == {MaxchangePayload(1, 1), EmptyObject}

(***************************************************************************)
(* The store.  Every table has UNIQUE (ticker, timestamp).                 *)
(***************************************************************************)
Rows(table) == BagToSet(table)
SameKey(r1, r2) == r1.ticker = r2.ticker /\ r1.timestamp = r2.timestamp
Conflicts(table, row) == \E r \in Rows(table) : SameKey(r, row)

\* The key columns hold "an absolute point in time": a row whose timestamp is
\* NULL is refused by the table (the schema is not part of the source files).
RowRefused(row) == row.timestamp = None

\* INSERT ... ON CONFLICT (ticker, timestamp) DO UPDATE: the later writer wins.
InsertOnConflictDoUpdate(table, row) ==
    LET kept == {r \in Rows(table) : ~SameKey(r, row)}
    IN  [r \in kept \cup {row} |-> IF r = row THEN 1 ELSE table[r]]

\* INSERT ... ON CONFLICT (ticker, timestamp) DO NOTHING.
InsertOnConflictDoNothing(table, row) ==
    IF Conflicts(table, row) THEN table ELSE table (+) SetToBag({row})

\* SELECT ... WHERE ticker = t ORDER BY timestamp DESC LIMIT 1; fetchone().
LatestRow(table, t) ==
    LET mine == {r \in Rows(table) : r.ticker = t}
    IN  {r \in mine : \A r2 \in mine :
            TheValue(r2.timestamp) <= TheValue(r.timestamp)}

(***************************************************************************)
(* Cache writers (scheduler.py).  A call ends in one of the faults the     *)
(* store can show: none, connect (psycopg2.connect raises), cursor         *)
(* (conn.cursor() raises), a failing INSERT, or a failing commit.  The     *)
(* result names the tables after the call, whether the exception left the  *)
(* function (raised), whether it was only logged, and the connections the  *)
(* call opened and did not close.                                          *)
(***************************************************************************)
ChainFaults == {"none", "connect", "cursor", "insert_snapshot", "insert_major", "commit"}
MaxchangeFaults == {"none", "connect", "cursor", "insert", "commit"}

snapshot_row(ticker, data) ==
    [timestamp |-> to_timestamp(get(data, "timestamp")), ticker |-> ticker,
     spot_price |-> get(data, "spot"), sum_gex_vol |-> get(data, "sum_gex_vol"),
     strikes_data |-> json_dumps(get_default(data, "strikes", <<>>)),
     full_data |-> json_dumps(data)]

major_levels_row(ticker, data) ==
    [timestamp |-> to_timestamp(get(data, "timestamp")), ticker |-> ticker,
     spot |-> get(data, "spot"), zero_gamma |-> get(data, "zero_gamma"),
     mpos_vol |-> get(data, "major_pos_vol"), mpos_oi |-> get(data, "major_pos_oi"),
     mneg_vol |-> get(data, "major_neg_vol"), mneg_oi |-> get(data, "major_neg_oi"),
     net_gex_vol |-> get(data, "sum_gex_vol"), net_gex_oi |-> get(data, "sum_gex_oi")]

\* data['current'][0] ... data['thirty'][1]: a KeyError when a pair is absent.
MaxchangeKeyError(data) == ~({"current", "one", "five", "thirty"} \subseteq DOMAIN data)

max_change_row(ticker, data) ==
    [timestamp |-> to_timestamp(get(data, "timestamp")), ticker |-> ticker,
     current_strike |-> data["current"][1], current_val |-> data["current"][2],
     one_min_strike |-> data["one"][1], one_min_val |-> data["one"][2],
     five_min_strike |-> data["five"][1], five_min_val |-> data["five"][2],
     thirty_min_strike |-> data["thirty"][1], thirty_min_val |-> data["thirty"][2],
     full_data |-> json_dumps(data)]

cache_chain_data(ticker, data, fault, snapshots, major_levels) ==
    IF fault = "connect"              \* get_db_connection() is outside the try
    THEN [snapshots |-> snapshots, major_levels |-> major_levels,
          raised |-> TRUE, logged |-> FALSE, leaked |-> 0]
    ELSE IF fault = "cursor"          \* conn.cursor() is outside the try
    THEN [snapshots |-> snapshots, major_levels |-> major_levels,
          raised |-> TRUE, logged |-> FALSE, leaked |-> 1]
    ELSE
    LET row1 == snapshot_row(ticker, data)
        row2 == major_levels_row(ticker, data)
        failed1 == fault = "insert_snapshot" \/ RowRefused(row1)
        tx_snapshots == IF failed1 THEN snapshots
                        ELSE InsertOnConflictDoNothing(snapshots, row1)
        failed2 == failed1 \/ fault = "insert_major" \/ RowRefused(row2)
        tx_major == IF failed2 THEN major_levels
                    ELSE InsertOnConflictDoNothing(major_levels, row2)
        failed == failed2 \/ fault = "commit"
    IN  IF failed                     \* except: conn.rollback(); logger.error
        THEN [snapshots |-> snapshots, major_levels |-> major_levels,
              raised |-> FALSE, logged |-> TRUE, leaked |-> 0]
        ELSE [snapshots |-> tx_snapshots, major_levels |-> tx_major,
              raised |-> FALSE, logged |-> FALSE, leaked |-> 0]

cache_maxchange_data(ticker, data, fault, max_change) ==
    IF fault = "connect"
    THEN [max_change |-> max_change, raised |-> TRUE, logged |-> FALSE, leaked |-> 0]
    ELSE IF fault = "cursor"
    THEN [max_change |-> max_change, raised |-> TRUE, logged |-> FALSE, leaked |-> 1]
    ELSE
    LET failed == \/ MaxchangeKeyError(data)
                  \/ fault = "insert"
                  \/ RowRefused(max_change_row(ticker, data))
                  \/ fault = "commit"
    IN  IF failed
        THEN [max_change |-> max_change, raised |-> FALSE, logged |-> TRUE, leaked |-> 0]
        ELSE [max_change |-> InsertOnConflictDoNothing(max_change,
                                                       max_change_row(ticker, data)),
              raised |-> FALSE, logged |-> FALSE, leaked |-> 0]

(***************************************************************************)
(* The upstream provider as a caller sees it: requests.get raises (kind    *)
(* "exc"), or answers with a status; json is the parsed body of a 200      *)
(* answer, None when resp.json() raises.                                   *)
(***************************************************************************)
ErrorStatuses == {404, 500}

UpstreamResponses(bodies) ==
    {[kind |-> "exc", status |-> 0, json |-> None]}
      \cup {[kind |-> "http", status |-> s, json |-> None] : s \in ErrorStatuses}
      \cup {[kind |-> "http", status |-> 200, json |-> j] :
               j \in {Some(b) : b \in bodies} \cup {None}}

UpstreamFailed(up) == up.kind = "exc" \/ up.status # 200

(***************************************************************************)
(* HTTP API service (app.py).  A handler's answer: status, JSON body and   *)
(* the connections it opened and did not close.                            *)
(***************************************************************************)
ReadFaults == {"none", "connect", "cursor", "execute"}

ApiErrorText(status) ==
    CASE status = 404 -> "Gexbot API error: 404"
      [] status = 500 -> "Gexbot API error: 500"
      [] OTHER -> "Gexbot API error"

Answer(status, body, leaked) == [status |-> status, body |-> body, leaked |-> leaked]

\* The "if ticker != 'SPX'" branch of the three data handlers.
proxy(up) ==
    IF up.kind = "exc" THEN Answer(500, [error |-> "exception"], 0)
    ELSE IF up.status = 200
    THEN IF up.json = None                    \* resp.json() raised
         THEN Answer(500, [error |-> "exception"], 0)
         ELSE Answer(200, TheValue(up.json), 0)
    ELSE Answer(up.status, [error |-> ApiErrorText(up.status)], 0)

\* float(x): a TypeError on None.
FloatFails(row, columns) == \E c \in columns : row[c] = None

health_check == Answer(200, [status |-> "healthy", service |-> "gexbot-backend"], 0)

get_majors(ticker, up, fault, major_levels) ==
    IF ticker # "SPX" THEN proxy(up)
    ELSE IF fault = "connect" THEN Answer(500, [error |-> "Database unavailable"], 0)
    ELSE IF fault \in {"cursor", "execute"} THEN Answer(500, [error |-> "exception"], 1)
    ELSE
    LET found == LatestRow(major_levels, "SPX")
        row == TheValue(found)
        columns == {"spot", "zero_gamma", "mpos_vol", "mpos_oi", "mneg_vol",
                    "mneg_oi", "net_gex_vol", "net_gex_oi"}
    IN  IF found = None THEN Answer(404, [error |-> "No data available"], 0)
        ELSE IF FloatFails(row, columns) THEN Answer(500, [error |-> "exception"], 0)
        ELSE Answer(200,
                    [timestamp |-> datetime_timestamp(TheValue(row.timestamp)),
                     ticker |-> row.ticker,
                     spot |-> TheValue(row.spot),
                     zero_gamma |-> TheValue(row.zero_gamma),
                     mpos_vol |-> TheValue(row.mpos_vol),
                     mpos_oi |-> TheValue(row.mpos_oi),
                     mneg_vol |-> TheValue(row.mneg_vol),
                     mneg_oi |-> TheValue(row.mneg_oi),
                     net_gex_vol |-> TheValue(row.net_gex_vol),
                     net_gex_oi |-> TheValue(row.net_gex_oi)], 0)

get_max_change(ticker, up, fault, max_change) ==
    IF ticker # "SPX" THEN proxy(up)
    ELSE IF fault = "connect" THEN Answer(500, [error |-> "Database unavailable"], 0)
    ELSE IF fault \in {"cursor", "execute"} THEN Answer(500, [error |-> "exception"], 1)
    ELSE
    LET found == LatestRow(max_change, "SPX")
    IN  IF found = None THEN Answer(404, [error |-> "No data available"], 0)
        ELSE Answer(200, json_loads(TheValue(found).full_data), 0)

get_chain(ticker, up, fault, snapshots) ==
    IF ticker # "SPX" THEN proxy(up)
    ELSE IF fault = "connect" THEN Answer(500, [error |-> "Database unavailable"], 0)
    ELSE IF fault \in {"cursor", "execute"} THEN Answer(500, [error |-> "exception"], 1)
    ELSE
    LET found == LatestRow(snapshots, "SPX")
        row == TheValue(found)
    IN  IF found = None THEN Answer(404, [error |-> "No data available"], 0)
        ELSE IF FloatFails(row, {"spot_price", "sum_gex_vol"})
        THEN Answer(500, [error |-> "exception"], 0)
        ELSE Answer(200,
                    [timestamp |-> datetime_timestamp(TheValue(row.timestamp)),
                     ticker |-> row.ticker,
                     spot |-> TheValue(row.spot_price),
                     sum_gex_vol |-> TheValue(row.sum_gex_vol),
                     strikes |-> json_loads(row.strikes_data),
                     min_dte |-> 0, sec_min_dte |-> 1, zero_gamma |-> 0,
                     major_pos_vol |-> 0, major_pos_oi |-> 0,
                     major_neg_vol |-> 0, major_neg_oi |-> 0,
                     sum_gex_oi |-> 0, delta_risk_reversal |-> 0,
                     max_priors |-> <<>>], 0)

(***************************************************************************)
(* Initial values shared by the specifications.                            *)
(***************************************************************************)
NoCall == [op |-> "none"]
NoTx == [pc |-> "idle"]
NotCalled == [kind |-> "none", status |-> 0, json |-> None]

StoreEmpty ==
    /\ gex_snapshots = EmptyBag
    /\ gex_major_levels = EmptyBag
    /\ gex_max_change = EmptyBag
    /\ open_conns = 0

ClockIdle == now = <<0, 0, 0, 0, 0>> /\ market_open = FALSE

\* The scheduler process is not running; "chain" is the chain body at hand.
SchedulerOffWith(chain) ==
    /\ DB_URL = TRUE /\ API_KEY = TRUE
    /\ DISCORD_WEBHOOKS = <<>> /\ webhook_mode = <<>>
    /\ SCHEDULER_TICKERS = <<"SPX", "SPY", "QQQ", "IWM">>
    /\ pc = "off" /\ periodic = FALSE /\ idx = 0
    /\ chain_data = chain /\ maxchange_data = None
    /\ events = <<>> /\ done = <<>> /\ startup_alerts = 0 /\ fetched = FALSE

SchedulerOff == SchedulerOffWith(None)

StoredRows == BagCardinality(gex_snapshots) + BagCardinality(gex_max_change)

(***************************************************************************)
(* Calls of the cache writers and requests to the API service, against a   *)
(* store that starts empty.                                                *)
(***************************************************************************)
CallCacheChain(ticker, data, fault) ==
    /\ call = NoCall
    /\ \E r \in {cache_chain_data(ticker, data, fault, gex_snapshots, gex_major_levels)} :
        /\ r.snapshots # gex_snapshots => StoredRows < MaxRows
        /\ open_conns + r.leaked <= MaxLeak
        /\ gex_snapshots' = r.snapshots
        /\ gex_major_levels' = r.major_levels
        /\ open_conns' = open_conns + r.leaked
        /\ call' = [op |-> "cache_chain_data", ticker |-> ticker, data |-> data,
                    fault |-> fault, raised |-> r.raised, logged |-> r.logged,
                    repeat |-> Conflicts(gex_snapshots, snapshot_row(ticker, data))]
        /\ UNCHANGED <<gex_max_change, tx, config, sched, clock>>

CallCacheMaxchange(ticker, data, fault) ==
    /\ call = NoCall
    /\ \E r \in {cache_maxchange_data(ticker, data, fault, gex_max_change)} :
        /\ r.max_change # gex_max_change => StoredRows < MaxRows
        /\ open_conns + r.leaked <= MaxLeak
        /\ gex_max_change' = r.max_change
        /\ open_conns' = open_conns + r.leaked
        /\ call' = [op |-> "cache_maxchange_data", ticker |-> ticker, data |-> data,
                    fault |-> fault, raised |-> r.raised, logged |-> r.logged]
        /\ UNCHANGED <<gex_snapshots, gex_major_levels, tx, config, sched, clock>>

\* A request: the upstream answer matters for a proxied ticker only, the store
\* fault for SPX only.
RequestInputs(ticker, up, fault) ==
    IF ticker = "SPX" THEN up = NotCalled ELSE up # NotCalled /\ fault = "none"

Request(op, ticker, up, fault, answer) ==
    /\ open_conns + answer.leaked <= MaxLeak
    /\ open_conns' = open_conns + answer.leaked
    /\ call' = [op |-> op, ticker |-> ticker, upstream |-> up, fault |-> fault,
                status |-> answer.status, body |-> answer.body]
    /\ UNCHANGED <<tx, config, sched, clock>>

ApiHealth ==
    /\ call = NoCall
    /\ call' = [op |-> "health_check", ticker |-> "", upstream |-> NotCalled,
                fault |-> "none", status |-> health_check.status,
                body |-> health_check.body]
    /\ UNCHANGED <<store, open_conns, tx, config, sched, clock>>

ApiMajors(ticker, up, fault) ==
    /\ call = NoCall
    /\ RequestInputs(ticker, up, fault)
    /\ \E answer \in {get_majors(ticker, up, fault, gex_major_levels)} :
          Request("get_majors", ticker, up, fault, answer)
    /\ UNCHANGED store

ApiMaxChange(ticker, up, fault) ==
    /\ call = NoCall
    /\ RequestInputs(ticker, up, fault)
    /\ \E answer \in {get_max_change(ticker, up, fault, gex_max_change)} :
          Request("get_max_change", ticker, up, fault, answer)
    /\ UNCHANGED store

\* A chain handler that also caches the body it relays.
ApiChainCaching(ticker, up, fault) ==
    /\ call = NoCall
    /\ RequestInputs(ticker, up, fault)
    /\ \E answer \in {get_chain(ticker, up, fault, gex_snapshots)} :
       \E r \in {IF ticker # "SPX" /\ answer.status = 200
                 THEN cache_chain_data(ticker, answer.body, "none",
                                       gex_snapshots, gex_major_levels)
                 ELSE [snapshots |-> gex_snapshots,
                       major_levels |-> gex_major_levels]} :
          /\ Request("get_chain", ticker, up, fault, answer)
          /\ gex_snapshots' = r.snapshots
          /\ gex_major_levels' = r.major_levels
          /\ UNCHANGED gex_max_change

ApiChain(ticker, up, fault) ==
    /\ call = NoCall
    /\ RequestInputs(ticker, up, fault)
    /\ \E answer \in {get_chain(ticker, up, fault, gex_snapshots)} :
          Request("get_chain", ticker, up, fault, answer)
    /\ UNCHANGED store

\* The caller takes the result; the next call or request can start.
Return ==
    /\ call # NoCall
    /\ call' = NoCall
    /\ UNCHANGED <<store, open_conns, tx, config, sched, clock>>

InitApi == StoreEmpty /\ tx = NoTx /\ call = NoCall /\ SchedulerOff /\ ClockIdle

NextApi ==
    \/ \E t \in CachedTickers, d \in ChainBodies, f \in ChainFaults :
          CallCacheChain(t, d, f)
    \/ \E t \in CachedTickers, d \in MaxchangeBodies, f \in MaxchangeFaults :
          CallCacheMaxchange(t, d, f)
    \/ ApiHealth
    \/ \E t \in Tickers, up \in UpstreamResponses(ProxiedChain) \cup {NotCalled},
          f \in ReadFaults : ApiMajors(t, up, f)
    \/ \E t \in Tickers, up \in UpstreamResponses(ProxiedMaxchange) \cup {NotCalled},
          f \in ReadFaults : ApiMaxChange(t, up, f)
    \/ \E t \in Tickers, up \in UpstreamResponses(ProxiedChain) \cup {NotCalled},
          f \in ReadFaults : ApiChain(t, up, f)
    \/ Return

SpecApi == InitApi /\ [][NextApi]_vars

(***************************************************************************)
(* Properties of the API service and of the cache writers (SpecApi).       *)
(***************************************************************************)
CacheOps == {"cache_chain_data", "cache_maxchange_data"}
ApiOps == {"health_check", "get_majors", "get_max_change", "get_chain"}

\* The request just answered was sent upstream and the upstream fetch failed.
UpstreamFetchFailed ==
    /\ call.upstream.kind \in {"exc", "http"}
    /\ UpstreamFailed(call.upstream)

\* C1 Fallback on upstream failure: a GET /api/chain for a quick ticker whose
\* upstream fetch fails (non-200 or exception) answers 200 with the cached
\* JSON of the most recent row when the store holds a chain row for the
\* ticker, and 503 {"error": "Data unavailable"} when it holds none.
C1_FallbackOnUpstreamFailure ==
    (call.op = "get_chain" /\ call.ticker \in QUICK_TICKERS /\ UpstreamFetchFailed)
    => LET found == LatestRow(gex_snapshots, call.ticker)
       IN  IF found # None
           THEN /\ call.status = 200
                /\ call.body = json_loads(TheValue(found).full_data)
           ELSE /\ call.status = 503
                /\ call.body = [error |-> "Data unavailable"]

\* Every row of the table is held once and no two rows share (ticker, timestamp).
OneRowPerKey(table) ==
    \A r1 \in Rows(table) :
        /\ table[r1] = 1
        /\ \A r2 \in Rows(table) : SameKey(r1, r2) => r1 = r2

Keys(table) == {<<r.ticker, r.timestamp>> : r \in Rows(table)}

\* What one step does to the chain tables: rows once written stay as they
\* are; a call that repeats a key changes no table and, the store working,
\* ends without an error; a call that writes adds the one row of its payload
\* to each table.
ChainCallStep ==
    /\ Rows(gex_snapshots) \subseteq Rows(gex_snapshots')
    /\ Rows(gex_major_levels) \subseteq Rows(gex_major_levels')
    /\ (call = NoCall /\ call'.op = "cache_chain_data") =>
          /\ call'.repeat =>
                /\ store' = store
                /\ call'.fault = "none" => ~call'.raised /\ ~call'.logged
          /\ gex_snapshots' # gex_snapshots =>
                /\ ~call'.repeat
                /\ \E r1 \in Rows(gex_snapshots'), r2 \in Rows(gex_major_levels') :
                      /\ Rows(gex_snapshots') = Rows(gex_snapshots) \cup {r1}
                      /\ Rows(gex_major_levels') = Rows(gex_major_levels) \cup {r2}
                      /\ r1.ticker = call'.ticker /\ r2.ticker = call'.ticker
                      /\ r1.timestamp = {call'.data.timestamp * 1000000}
                      /\ r2.timestamp = r1.timestamp
                      /\ json_loads(r1.full_data) = call'.data
                      /\ r1.spot_price = {call'.data.spot}
                      /\ r2.zero_gamma = {call'.data.zero_gamma}
                      /\ r2.net_gex_oi = {call'.data.sum_gex_oi}

\* C2 Duplicate-insert idempotence: after any sequence of cache_chain_data
\* calls gex_snapshots and gex_major_levels each hold exactly one row per
\* (ticker, timestamp) key, the row carries the values of the first call that
\* wrote the key, and a call that repeats a key (with the same or another
\* payload) completes without an error and without changing any table.
C2_FirstWriterWins ==
    /\ [](/\ OneRowPerKey(gex_snapshots)
          /\ OneRowPerKey(gex_major_levels)
          /\ Keys(gex_snapshots) = Keys(gex_major_levels))
    /\ [][ChainCallStep]_vars

\* C2 witness: a call repeating the key of a stored row with other content
\* has returned normally.
C2_RepeatedKeyOtherPayload ==
    /\ call.op = "cache_chain_data"
    /\ call.repeat /\ call.fault = "none" /\ ~call.raised /\ ~call.logged
    /\ \E r \in Rows(gex_snapshots) :
          /\ r.ticker = call.ticker
          /\ r.timestamp = {call.data.timestamp * 1000000}
          /\ json_loads(r.full_data) # call.data
          /\ gex_snapshots[r] = 1

\* The payload of a cache_maxchange_data call lacks one of its pairs.
Malformed(c) == c.op = "cache_maxchange_data" /\ MaxchangeKeyError(c.data)

\* C4 The cache writers never raise: under every store failure (connection,
\* cursor, either INSERT, commit) and under a malformed payload,
\* cache_chain_data and cache_maxchange_data return normally, with the tables
\* unchanged and the error logged.
C4_CacheWritersNeverRaise ==
    [][(call = NoCall /\ call'.op \in CacheOps) =>
          /\ ~call'.raised
          /\ (call'.fault # "none" \/ Malformed(call')) =>
                call'.logged /\ store' = store]_vars

\* C6 Cache round trip: once a valid chain payload is cached for a quick
\* ticker, the store read path of /api/chain returns for that ticker a
\* payload equal to the full_data of its most recent row (zero_gamma, major
\* levels and sum_gex_oi included).
C6_CachedChainRoundTrip ==
    (/\ call.op = "get_chain" /\ call.ticker \in QUICK_TICKERS
     /\ call.upstream = NotCalled /\ call.fault = "none"
     /\ LatestRow(gex_snapshots, call.ticker) # None)
    => /\ call.status = 200
       /\ call.body =
             json_loads(TheValue(LatestRow(gex_snapshots, call.ticker)).full_data)

\* C7 Custom-ticker non-persistence: a request for a ticker outside the
\* allow-list (and /health) leaves gex_snapshots, gex_major_levels and
\* gex_max_change as they were, and a /api/chain request for such a ticker
\* that the provider answers with 200 and a JSON body returns that body with
\* status 200.
C7_HandlersDoNotWrite ==
    [][(call = NoCall /\ call'.op \in ApiOps /\ call'.ticker \notin QUICK_TICKERS) =>
          /\ store' = store
          /\ (/\ call'.op = "get_chain"
              /\ call'.upstream.kind = "http" /\ call'.upstream.status = 200
              /\ call'.upstream.json # None)
             => /\ call'.status = 200
                /\ call'.body = TheValue(call'.upstream.json)]_vars

\* C7 witness: a custom ticker's chain request relayed the provider's body
\* while the store held rows.
C7_CustomTickerRelayed ==
    /\ call.op = "get_chain" /\ call.ticker = "XYZ"
    /\ call.status = 200 /\ call.body = ChainPayload(1, 1)
    /\ gex_snapshots # EmptyBag
    /\ \A r \in Rows(gex_snapshots) : r.ticker # "XYZ"

StoreOps == CacheOps \cup {"get_majors", "get_max_change", "get_chain"}

\* C14 Connections are closed: after an API handler or a cache function
\* returns, whether its query succeeded, found no row or raised (query,
\* cursor or row-conversion error), as many store connections are open as
\* before the call.
C14_ConnectionsClosed ==
    [][(call = NoCall /\ call'.op \in StoreOps) => open_conns' = open_conns]_vars

(***************************************************************************)
(* cache_chain_data statement by statement, with API requests in between.  *)
(* psycopg2 opens a transaction at the first execute: what the call has    *)
(* inserted (tx.snapshot, tx.major) is not in the tables other connections *)
(* read until conn.commit().                                               *)
(***************************************************************************)
\* An INSERT that is committed as it is executed (conn.autocommit = True).
execute_insert_autocommit(table, row) ==
    [table |-> InsertOnConflictDoNothing(table, row), pending |-> None]

\* cur.execute("INSERT ... ON CONFLICT (ticker, timestamp) DO NOTHING") inside
\* the transaction: the table as others see it, and the row held back.
execute_insert(table, row) ==
    [table |-> table,
     pending |-> IF Conflicts(table, row) THEN None ELSE Some(row)]

\* conn = get_db_connection(): psycopg2.connect raises (ok false) or connects.
TxConnect(ticker, data, ok) ==
    /\ tx = NoTx
    /\ open_conns < MaxLeak
    /\ Conflicts(gex_snapshots, snapshot_row(ticker, data)) \/ StoredRows < MaxRows
    /\ IF ok
       THEN /\ open_conns' = open_conns + 1
            /\ tx' = [pc |-> "cursor", ticker |-> ticker, data |-> data,
                      snapshot |-> None, major |-> None]
       ELSE UNCHANGED <<open_conns, tx>>
    /\ UNCHANGED <<store, call, config, sched, clock>>

\* cur = conn.cursor(): an exception here leaves the function, conn still open.
TxCursor(ok) ==
    /\ tx.pc = "cursor"
    /\ tx' = IF ok THEN [tx EXCEPT !.pc = "insert_snapshot"] ELSE NoTx
    /\ UNCHANGED <<store, open_conns, call, config, sched, clock>>

\* The first cur.execute of the try block.
TxInsertSnapshot(ok) ==
    /\ tx.pc = "insert_snapshot"
    /\ \E row \in {snapshot_row(tx.ticker, tx.data)} :
          IF ok /\ ~RowRefused(row)
          THEN \E r \in {execute_insert(gex_snapshots, row)} :
                  /\ gex_snapshots' = r.table
                  /\ tx' = [tx EXCEPT !.pc = "insert_major", !.snapshot = r.pending]
          ELSE /\ tx' = [tx EXCEPT !.pc = "except"]
               /\ UNCHANGED gex_snapshots
    /\ UNCHANGED <<gex_major_levels, gex_max_change, open_conns, call, config,
                   sched, clock>>

\* The second cur.execute of the try block.
TxInsertMajor(ok) ==
    /\ tx.pc = "insert_major"
    /\ \E row \in {major_levels_row(tx.ticker, tx.data)} :
          IF ok /\ ~RowRefused(row)
          THEN \E r \in {execute_insert(gex_major_levels, row)} :
                  /\ gex_major_levels' = r.table
                  /\ tx' = [tx EXCEPT !.pc = "commit", !.major = r.pending]
          ELSE /\ tx' = [tx EXCEPT !.pc = "except"]
               /\ UNCHANGED gex_major_levels
    /\ UNCHANGED <<gex_snapshots, gex_max_change, open_conns, call, config,
                   sched, clock>>

\* conn.commit(): the rows held back become visible together.
TxCommit(ok) ==
    /\ tx.pc = "commit"
    /\ IF ok
       THEN /\ gex_snapshots' = gex_snapshots (+) SetToBag(tx.snapshot)
            /\ gex_major_levels' = gex_major_levels (+) SetToBag(tx.major)
            /\ tx' = [tx EXCEPT !.pc = "finally", !.snapshot = None, !.major = None]
       ELSE /\ tx' = [tx EXCEPT !.pc = "except"]
            /\ UNCHANGED <<gex_snapshots, gex_major_levels>>
    /\ UNCHANGED <<gex_max_change, open_conns, call, config, sched, clock>>

\* except Exception: conn.rollback(); logger.error
TxExcept ==
    /\ tx.pc = "except"
    /\ tx' = [tx EXCEPT !.pc = "finally", !.snapshot = None, !.major = None]
    /\ UNCHANGED <<store, open_conns, call, config, sched, clock>>

\* finally: cur.close(); conn.close()
TxFinally ==
    /\ tx.pc = "finally"
    /\ open_conns' = open_conns - 1
    /\ tx' = NoTx
    /\ UNCHANGED <<store, call, config, sched, clock>>

InitTx == StoreEmpty /\ tx = NoTx /\ call = NoCall /\ SchedulerOff /\ ClockIdle

NextTx ==
    \/ \E t \in CachedTickers, d \in ChainBodies, ok \in BOOLEAN : TxConnect(t, d, ok)
    \/ \E ok \in BOOLEAN : TxCursor(ok)
    \/ \E ok \in BOOLEAN : TxInsertSnapshot(ok)
    \/ \E ok \in BOOLEAN : TxInsertMajor(ok)
    \/ \E ok \in BOOLEAN : TxCommit(ok)
    \/ TxExcept
    \/ TxFinally
    \/ \E f \in ReadFaults : ApiChain("SPX", NotCalled, f)
    \/ \E f \in ReadFaults : ApiMajors("SPX", NotCalled, f)
    \/ Return

SpecTx == InitTx /\ [][NextTx]_vars

\* What a request has read has its companion: the snapshot a chain request
\* answered with has a major-levels row of the same key, the major-levels
\* row a majors request answered with has a snapshot of the same key.
ReadHasCompanion ==
    /\ (call.op = "get_chain" /\ call.status = 200) =>
          <<call.body.ticker, {call.body.timestamp * 1000000}>> \in Keys(gex_major_levels)
    /\ (call.op = "get_majors" /\ call.status = 200) =>
          <<call.body.ticker, {call.body.timestamp * 1000000}>> \in Keys(gex_snapshots)

\* A commit leaves the tables as the call taken as a whole leaves them.
CommitIsTheWholeCall ==
    (tx.pc = "commit" /\ tx'.pc = "finally") =>
        LET r == cache_chain_data(tx.ticker, tx.data, "none",
                                  gex_snapshots, gex_major_levels)
        IN  gex_snapshots' = r.snapshots /\ gex_major_levels' = r.major_levels

\* C15 Companion rows: with cache_chain_data the only writer, starting from
\* empty tables, in every state a concurrent reader can observe (between any
\* two statements of a call, calls that fail and roll back included)
\* gex_snapshots and gex_major_levels hold the same (ticker, timestamp) keys.
C15_CompanionRows ==
    /\ [](Keys(gex_snapshots) = Keys(gex_major_levels) /\ ReadHasCompanion)
    /\ [][CommitIsTheWholeCall]_vars

\* C15 witness: a chain request was answered with "no data" while a call
\* had inserted its snapshot and not yet its major-levels row.
C15_ReadBetweenTheInserts ==
    /\ tx.pc = "insert_major" /\ tx.snapshot # None
    /\ call.op = "get_chain" /\ call.ticker = "SPX" /\ call.status = 404
    /\ tx.ticker = "SPX"

(***************************************************************************)
(* Market-hours gate (dashboard_image.py).  An instant of Eastern time is  *)
(* <<weekday, hour, minute, second, microsecond>>, weekday 0 = Monday.     *)
(***************************************************************************)
OpenHour == 9
OpenMinute == 15
CloseHour == 16
CloseMinute == 5
FirstWeekendDay == 5

\* datetime comparison of two instants of the same day.
TimeLE(a, b) ==
    \/ a[2] < b[2]
    \/ a[2] = b[2] /\ a[3] < b[3]
    \/ a[2] = b[2] /\ a[3] = b[3] /\ a[4] < b[4]
    \/ a[2] = b[2] /\ a[3] = b[3] /\ a[4] = b[4] /\ a[5] <= b[5]

\* now.replace(hour=h, minute=m, second=0, microsecond=0)
replace(t, h, m) == <<t[1], h, m, 0, 0>>

\* A gate that closes the interval on the left only.
is_market_hours_half_open(t) ==
    IF t[1] >= FirstWeekendDay THEN FALSE
    ELSE LET market_open_at == replace(t, OpenHour, OpenMinute)
             market_close_at == replace(t, CloseHour, CloseMinute)
         IN  TimeLE(market_open_at, t) /\ ~TimeLE(market_close_at, t)

is_market_hours(t) ==
    IF t[1] >= FirstWeekendDay THEN FALSE
    ELSE LET market_open_at == replace(t, OpenHour, OpenMinute)
             market_close_at == replace(t, CloseHour, CloseMinute)
         IN  TimeLE(market_open_at, t) /\ TimeLE(t, market_close_at)

\* The instants datetime.now(est) is drawn from: every weekday, around the
\* opening and the closing instant and far from both.
Instants ==
    {<<d, h, m, sec, us>> : d \in 0..6, h \in {0, 9, 12, 16, 23},
                           m \in {0, 4, 5, 14, 15, 59}, sec \in {0, 1, 59},
                           us \in {0, 1, 999999}}

\* A call of is_market_hours() at the instant "now".
CallIsMarketHours ==
    /\ call = NoCall
    /\ market_open' = is_market_hours(now)
    /\ call' = [op |-> "is_market_hours"]
    /\ UNCHANGED <<store, open_conns, tx, config, sched, now>>

InitClock ==
    /\ StoreEmpty /\ tx = NoTx /\ call = NoCall /\ SchedulerOff
    /\ now \in Instants /\ market_open = FALSE

NextClock == CallIsMarketHours \/ Return

SpecClock == InitClock /\ [][NextClock]_vars

(***************************************************************************)
(* Properties of the market-hours gate (SpecClock).                        *)
(***************************************************************************)
SecondOfDay(t) == t[2] * 3600 + t[3] * 60 + t[4]
OpeningSecond == 9 * 3600 + 15 * 60
ClosingSecond == 16 * 3600 + 5 * 60
Weekend(t) == t[1] \in {5, 6}

\* C9 (as stated) Market-hours gate: false on Saturday and Sunday; on Monday
\* to Friday true exactly from 09:15:00 to 16:05:00, every instant within the
\* second 16:05:00 included, so 09:14:59 and 16:05:01 are false.
C9_GateToTheSecond ==
    call.op = "is_market_hours" =>
        market_open = (/\ ~Weekend(now)
                       /\ OpeningSecond <= SecondOfDay(now)
                       /\ SecondOfDay(now) <= ClosingSecond)

\* C9 (amended) Market-hours gate: false on Saturday and Sunday; on Monday to
\* Friday true exactly for the instants t with 09:15:00.000000 <= t <=
\* 16:05:00.000000, so 09:14:59 is false, 09:15:00 and 16:05:00.000000 are
\* true, and every later instant (16:05:00.000001, 16:05:01) is false.
C9_GateToTheMicrosecond ==
    call.op = "is_market_hours" =>
        market_open = (/\ ~Weekend(now)
                       /\ OpeningSecond <= SecondOfDay(now)
                       /\ \/ SecondOfDay(now) < ClosingSecond
                          \/ SecondOfDay(now) = ClosingSecond /\ now[5] = 0)

\* C9 witness: the gate was asked at 16:05:00.000000 of a Tuesday and is open.
C9_OpenAtTheClosingInstant ==
    /\ call.op = "is_market_hours"
    /\ now = <<1, 16, 5, 0, 0>>
    /\ market_open

(***************************************************************************)
(* Trend panel (dashboard_image.py): the strikes near spot and the scaling *)
(* of their GEX-by-volume values.  A strike is <<strike, gex_vol, gex_oi>>; *)
(* a scaled value v / max_abs * 100 is kept as the fraction                *)
(* <<v * 100, max_abs>>.                                                   *)
(***************************************************************************)
PctRange == 2

Abs(v) == IF v < 0 THEN 0 - v ELSE v

\* max(abs(v) for v in values), values not empty.
MaxAbs(values) ==
    CHOOSE a \in {Abs(values[i]) : i \in 1..Len(values)} :
        \A i \in 1..Len(values) : Abs(values[i]) <= a

\* lower <= strike <= upper for lower = spot * (1 - 0.02), upper = spot * (1 + 0.02)
InRange(strike, spot) ==
    /\ spot * (100 - PctRange) <= strike * 100
    /\ strike * 100 <= spot * (100 + PctRange)

\* _filter_strikes_near_spot(chain_data, pct_range=0.02): the strikes and the
\* gex_vol values of the strikes in range (no strike at all when spot is 0).
_filter_strikes_near_spot(data) ==
    LET spot == get_default(data, "spot", 0)
        strikes_raw == get_default(data, "strikes", <<>>)
        Near(st) == InRange(st[1], spot)
        kept == IF spot = 0 THEN <<>> ELSE SelectSeq(strikes_raw, Near)
    IN  [strikes |-> [i \in 1..Len(kept) |-> kept[i][1]],
         gex_vol |-> [i \in 1..Len(kept) |-> kept[i][2]]]

\* max_abs = max(abs(v) for v in gex_vol) if gex_vol else 1
max_abs(gex_vol) == IF gex_vol # <<>> THEN MaxAbs(gex_vol) ELSE 1

\* _draw_trend_pivots(ax, chain_data), up to the scaled values it plots.
_draw_trend_pivots(data) ==
    LET near == _filter_strikes_near_spot(data)
        divisor == max_abs(near.gex_vol)
    IN  IF near.strikes = <<>> THEN [kind |-> "no_data"]
        ELSE IF divisor = 0 THEN [kind |-> "ZeroDivisionError"]
        ELSE [kind |-> "drawn", strikes |-> near.strikes,
              scaled |-> [i \in 1..Len(near.gex_vol) |->
                            <<near.gex_vol[i] * 100, divisor>>]]

\* The chain bodies handed to the panel: spot 100 (or none), up to MaxStrikes
\* strikes inside and outside of 98..102, with positive, zero and negative
\* values.
PanelStrikes == {<<k, v, 1>> : k \in {97, 99, 101, 103}, v \in {0 - 4, 0, 3}}
StrikeLists == UNION {[1..n -> PanelStrikes] : n \in 0..MaxStrikes}
PanelBodies ==
    {[spot |-> 100, strikes |-> l] : l \in StrikeLists}
      \cup {[spot |-> 0, strikes |-> <<>>], EmptyObject}

\* A call of _draw_trend_pivots with the chain body at hand.
CallDrawTrendPivots ==
    /\ call = NoCall
    /\ chain_data # None
    /\ call' = [op |-> "_draw_trend_pivots",
                outcome |-> _draw_trend_pivots(TheValue(chain_data))]
    /\ UNCHANGED <<store, open_conns, tx, config, sched, clock>>

InitPanel ==
    /\ StoreEmpty /\ tx = NoTx /\ call = NoCall /\ ClockIdle
    /\ \E body \in PanelBodies : SchedulerOffWith(Some(body))

NextPanel == CallDrawTrendPivots \/ Return

SpecPanel == InitPanel /\ [][NextPanel]_vars

\* The gex_vol values of the strikes of the body at hand that are in range.
InRangeValues ==
    LET data == TheValue(chain_data)
        spot == get_default(data, "spot", 0)
        strikes == get_default(data, "strikes", <<>>)
    IN  IF spot = 0 THEN {}
        ELSE {strikes[i][2] : i \in {j \in 1..Len(strikes) :
                                        98 * spot <= 100 * strikes[j][1]
                                        /\ 100 * strikes[j][1] <= 102 * spot}}

\* C16 Trend scaling: the values of the strikes within 2% of spot are divided
\* by their largest absolute value, by 1 when all of them are zero; so with
\* at least one strike in range the scaling completes without a division
\* error and every scaled value lies in [-100, 100].
C16_ScalingCompletes ==
    (call.op = "_draw_trend_pivots" /\ InRangeValues # {}) =>
        /\ call.outcome.kind = "drawn"
        /\ \A i \in 1..Len(call.outcome.scaled) :
              LET f == call.outcome.scaled[i]
              IN  /\ f[2] > 0
                  /\ 0 - 100 * f[2] <= f[1] /\ f[1] <= 100 * f[2]
                  /\ InRangeValues = {0} => f[2] = 1

(***************************************************************************)
(* Scheduler (scheduler.py).  An event is one thing the process did.       *)
(***************************************************************************)
E(ev, ticker, what, url, result) ==
    [ev |-> ev, ticker |-> ticker, what |-> what, url |-> url, result |-> result]

RECURSIVE Flatten(_)
Flatten(seqs) == IF seqs = <<>> THEN <<>> ELSE Head(seqs) \o Flatten(Tail(seqs))

StatusText(status) ==
    CASE status = 200 -> "200" [] status = 404 -> "404" [] status = 500 -> "500"
      [] OTHER -> "?"

\* What a webhook endpoint does with a post: answers 204, answers 500, or the
\* post raises.
WebhookModes == {"204", "500", "exc"}

\* The order in which a loop "for webhook_url in DISCORD_WEBHOOKS" visits the
\* list, last URL first.
LastFirst(hooks) == [i \in 1..Len(hooks) |-> Len(hooks) + 1 - i]

\* for webhook_url in DISCORD_WEBHOOKS
ListOrder(hooks) == [i \in 1..Len(hooks) |-> i]

\* send_discord_alert(message): one JSON post per webhook, an exception of a
\* post caught and logged.  "what" is the message, naming "ticker".
send_discord_alert(ticker, what, hooks, modes) ==
    <<E("alert", ticker, what, "", "")>> \o
    Flatten([k \in 1..Len(hooks) |->
        LET i == ListOrder(hooks)[k]
        IN  <<E("post", ticker, "alert", hooks[i], modes[i])>> \o
            (IF modes[i] = "exc"
             THEN <<E("caught", ticker, "send_discord_alert", hooks[i], "")>>
             ELSE <<>>)])

\* send_dashboard_to_discord(image_buf, webhook_url, ticker)
send_dashboard_to_discord(ticker, url, mode) ==
    <<E("post", ticker, "image", url, mode)>> \o
    (IF mode = "exc"
     THEN <<E("caught", ticker, "send_dashboard_to_discord", url, "")>>
     ELSE <<>>)

\* generate_and_send(chain_data, maxchange_data, webhook_url, ticker) called at
\* the instant t; render_ok: generate_dashboard_image returns an image.
generate_and_send(ticker, url, mode, t, render_ok) ==
    IF ~is_market_hours(t)
    THEN <<E("generate_and_send", ticker, "closed", url, "")>>
    ELSE <<E("generate_and_send", ticker, "open", url, "")>> \o
         (IF render_ok
          THEN <<E("render", ticker, "image", url, "ok")>> \o
               send_dashboard_to_discord(ticker, url, mode)
          ELSE <<E("render", ticker, "image", url, "raised"),
                 E("caught", ticker, "generate_and_send", url, "")>>)

\* A step in which a non-200 status raises (resp.raise_for_status()).
fetch_step_raising(ticker, what, up, r, hooks, modes) ==
    LET got == E("get", ticker, what, "",
                 IF up.kind = "exc" THEN "exc" ELSE StatusText(up.status))
    IN  IF up.kind = "exc" \/ up.status # 200
        THEN [events |-> <<got>>, data |-> None, raised |-> TRUE, cached |-> FALSE]
        ELSE IF up.json = None
        THEN [events |-> <<got, E("json", ticker, what, "", "raised")>>,
              data |-> None, raised |-> TRUE, cached |-> FALSE]
        ELSE [events |->
                <<got, E("cache", ticker, what, "",
                         IF r.raised THEN "raised"
                         ELSE IF r.logged THEN "logged" ELSE "ok")>> \o
                (IF r.logged
                 THEN <<E("caught", ticker, "cache_" \o what \o "_data", "", "")>>
                 ELSE <<>>),
              data |-> up.json, raised |-> r.raised, cached |-> TRUE]

\* One of the two steps of fetch_and_cache_ticker: the request, and on status
\* 200 resp.json() and the cache writer, else the alert.  "r" is the cache
\* writer's result for the body; "raised": an exception leaves the step.
fetch_step(ticker, what, up, r, hooks, modes) ==
    LET got == E("get", ticker, what, "",
                 IF up.kind = "exc" THEN "exc" ELSE StatusText(up.status))
    IN  IF up.kind = "exc"
        THEN [events |-> <<got>>, data |-> None, raised |-> TRUE, cached |-> FALSE]
        ELSE IF up.status # 200
        THEN [events |-> <<got>> \o send_discord_alert(ticker, what, hooks, modes),
              data |-> None, raised |-> FALSE, cached |-> FALSE]
        ELSE IF up.json = None
        THEN [events |-> <<got, E("json", ticker, what, "", "raised")>>,
              data |-> None, raised |-> TRUE, cached |-> FALSE]
        ELSE [events |->
                <<got, E("cache", ticker, what, "",
                         IF r.raised THEN "raised"
                         ELSE IF r.logged THEN "logged" ELSE "ok")>> \o
                (IF r.logged
                 THEN <<E("caught", ticker, "cache_" \o what \o "_data", "", "")>>
                 ELSE <<>>),
              data |-> up.json, raised |-> r.raised, cached |-> TRUE]

\* An except clause that logs and sends no alert.
except_handler_silent(ticker, hooks, modes) ==
    <<E("caught", ticker, "fetch_and_cache_ticker", "", "")>>

\* except Exception as e: logger.exception; send_discord_alert
except_handler(ticker, hooks, modes) ==
    <<E("caught", ticker, "fetch_and_cache_ticker", "", "")>> \o
    send_discord_alert(ticker, "exception", hooks, modes)

\* fetch_and_cache_ticker(ticker): the chain step, then the maxchange step, an
\* exception of either caught by the function's except clause.  up1/fault1
\* and up2/fault2 are the upstream answer and the store fault of each step.
fetch_and_cache_ticker(ticker, up1, fault1, up2, fault2, hooks, modes, snapshots, major_levels, max_change) ==
    LET body1 == IF up1.json = None THEN EmptyObject ELSE TheValue(up1.json)
        r1 == cache_chain_data(ticker, body1, fault1, snapshots, major_levels)
        s1 == fetch_step(ticker, "chain", up1, r1, hooks, modes)
        body2 == IF up2.json = None THEN EmptyObject ELSE TheValue(up2.json)
        r2 == cache_maxchange_data(ticker, body2, fault2, max_change)
        s2 == fetch_step(ticker, "maxchange", up2, r2, hooks, modes)
    IN  IF s1.raised
        THEN [chain_data |-> s1.data, maxchange_data |-> None,
              events |-> s1.events \o except_handler(ticker, hooks, modes),
              snapshots |-> IF s1.cached THEN r1.snapshots ELSE snapshots,
              major_levels |-> IF s1.cached THEN r1.major_levels ELSE major_levels,
              max_change |-> max_change]
        ELSE [chain_data |-> s1.data, maxchange_data |-> s2.data,
              events |-> s1.events \o s2.events \o
                         (IF s2.raised THEN except_handler(ticker, hooks, modes)
                          ELSE <<>>),
              snapshots |-> IF s1.cached THEN r1.snapshots ELSE snapshots,
              major_levels |-> IF s1.cached THEN r1.major_levels ELSE major_levels,
              max_change |-> IF s2.cached THEN r2.max_change ELSE max_change]

\* The dashboard loop of fetch_cache_and_generate for one ticker:
\* "if chain_data and maxchange_data: for webhook_url in DISCORD_WEBHOOKS".
\* at[i] is the instant of the i-th call of generate_and_send.
dashboard_step(ticker, chain, maxchange, hooks, modes, at, render_ok) ==
    IF Truthy(chain) /\ Truthy(maxchange)
    THEN Flatten([k \in 1..Len(hooks) |->
            LET i == ListOrder(hooks)[k]
            IN  generate_and_send(ticker, hooks[i], modes[i], at[i], render_ok)])
    ELSE <<>>

(***************************************************************************)
(* The scheduler process.                                                  *)
(***************************************************************************)
\* The lists the environment configures (DISCORD_WEBHOOKS, SCHEDULER_TICKERS).
AllHooks == <<"hookB", "hookA", "hookC", "hookD">>
HookLists == {SubSeq(AllHooks, 1, n) : n \in 0..MaxWebhooks}
TickerLists == {<<"SPX", "XYZ">>, <<"AAPL">>}

\* What the provider answers the scheduler: without an API key every request
\* fails.
SchedChain == {ChainPayload(1, 1), EmptyObject}
SchedMaxchange == {MaxchangePayload(1, 1), EmptyObject}
ProviderAnswers(bodies) ==
    {up \in UpstreamResponses(bodies) :
        /\ up.status # 404
        /\ ~API_KEY => UpstreamFailed(up)}

\* Store faults of a scheduler run (a cursor fault ends as a connect fault
\* does for the caller).
SchedFaults(faults) == faults \ {"cursor"}

\* The instants of the n calls of generate_and_send in one dashboard loop: time
\* moves on during the loop, so the calls up to some k fall on the closing
\* instant of a Tuesday (16:05:00.000000) and the later ones after it.
LastOpenInstant == <<1, 16, 5, 0, 0>>
FirstClosedInstant == <<1, 16, 5, 0, 1>>
DashInstants(n) ==
    {[i \in 1..n |-> IF i <= k THEN LastOpenInstant ELSE FirstClosedInstant] :
        k \in 0..n}

Ticker == SCHEDULER_TICKERS[idx]

\* The inputs a step reads: the store fault matters once the cache writer is
\* called, the second answer once the first step has not raised.
Cached(up) == up.kind = "http" /\ up.status = 200 /\ up.json # None
FaultsRead(up, faults) == IF Cached(up) THEN faults ELSE {"none"}
StepRaises(up, fault) ==
    \/ up.kind = "exc"
    \/ up.status = 200 /\ up.json = None
    \/ Cached(up) /\ fault \in {"connect", "cursor"}

Init ==
    /\ StoreEmpty /\ tx = NoTx /\ call = NoCall /\ ClockIdle
    /\ DB_URL \in BOOLEAN /\ API_KEY \in BOOLEAN
    /\ DISCORD_WEBHOOKS \in HookLists
    /\ webhook_mode \in [1..Len(DISCORD_WEBHOOKS) -> WebhookModes]
    /\ SCHEDULER_TICKERS \in TickerLists
    /\ pc = "main" /\ periodic = FALSE /\ idx = 0
    /\ chain_data = None /\ maxchange_data = None
    /\ events = <<>> /\ done = <<>> /\ startup_alerts = 0 /\ fetched = FALSE

\* A main block that sends the startup alert before it looks at DB_URL.
MainAlertFirst ==
    /\ pc = "main"
    /\ events' = send_discord_alert("", "started", DISCORD_WEBHOOKS, webhook_mode)
    /\ startup_alerts' = startup_alerts + 1
    /\ IF ~DB_URL
       THEN pc' = "exited" /\ UNCHANGED idx
       ELSE pc' = "ticker" /\ idx' = 1
    /\ UNCHANGED <<store, open_conns, call, tx, config, clock, periodic,
                   chain_data, maxchange_data, done, fetched>>

\* if __name__ == "__main__": up to the first call of fetch_cache_and_generate.
Main ==
    /\ pc = "main"
    /\ IF ~DB_URL
       THEN /\ pc' = "exited"
            /\ events' = <<E("exit", "", "", "", "1")>>
            /\ UNCHANGED <<idx, startup_alerts>>
       ELSE /\ pc' = "ticker"
            /\ events' = send_discord_alert("", "started", DISCORD_WEBHOOKS, webhook_mode)
            /\ startup_alerts' = startup_alerts + 1
            /\ idx' = 1
    /\ UNCHANGED <<store, open_conns, call, tx, config, clock, periodic,
                   chain_data, maxchange_data, done, fetched>>

\* One pass of the loop body of fetch_cache_and_generate:
\*   chain_data, maxchange_data = fetch_and_cache_ticker(ticker)
\*   if chain_data and maxchange_data:
\*       for webhook_url in DISCORD_WEBHOOKS: generate_and_send(...)
ProcessTicker ==
    /\ pc = "ticker"
    /\ \E up1 \in ProviderAnswers(SchedChain) :
       \E fault1 \in FaultsRead(up1, SchedFaults(ChainFaults)) :
       \E up2 \in IF StepRaises(up1, fault1) THEN {NotCalled}
                  ELSE ProviderAnswers(SchedMaxchange) :
       \E fault2 \in FaultsRead(up2, SchedFaults(MaxchangeFaults)) :
       \E r \in {fetch_and_cache_ticker(Ticker, up1, fault1, up2, fault2,
                     DISCORD_WEBHOOKS, webhook_mode,
                     gex_snapshots, gex_major_levels, gex_max_change)} :
       \E both \in {Truthy(r.chain_data) /\ Truthy(r.maxchange_data)} :
       \E at \in IF both THEN DashInstants(Len(DISCORD_WEBHOOKS))
                 ELSE {[i \in 1..Len(DISCORD_WEBHOOKS) |-> <<0, 0, 0, 0, 0>>]} :
       \E render_ok \in IF both THEN BOOLEAN ELSE {TRUE} :
            /\ events' = r.events \o
                         dashboard_step(Ticker, r.chain_data, r.maxchange_data,
                                        DISCORD_WEBHOOKS, webhook_mode, at, render_ok)
            /\ chain_data' = r.chain_data
            /\ maxchange_data' = r.maxchange_data
            /\ gex_snapshots' = r.snapshots
            /\ gex_major_levels' = r.major_levels
            /\ gex_max_change' = r.max_change
    /\ fetched' = TRUE
    /\ pc' = "next"
    /\ UNCHANGED <<open_conns, call, tx, config, clock, periodic, idx, done, startup_alerts>>

\* How the chain request of the ticker just processed ended.
ChainResult(evs) ==
    LET got == CHOOSE e \in 1..Len(evs) : evs[e].ev = "get" /\ evs[e].what = "chain"
    IN  IF evs[got].result = "exc" THEN "raised"
        ELSE IF evs[got].result = "200" THEN "ok" ELSE "error"

\* for ticker in SCHEDULER_TICKERS: the next ticker, or the end of the cycle.
NextTicker ==
    /\ pc = "next"
    /\ done' = Append(done, [ticker |-> Ticker, chain |-> ChainResult(events)])
    /\ IF idx < Len(SCHEDULER_TICKERS)
       THEN /\ idx' = idx + 1
            /\ pc' = "ticker"
            /\ events' = <<>>
            /\ chain_data' = None
            /\ maxchange_data' = None
       ELSE /\ pc' = "sleep"
            /\ UNCHANGED <<idx, events, chain_data, maxchange_data>>
    /\ UNCHANGED <<store, open_conns, call, tx, config, clock, periodic, startup_alerts,
                   fetched>>

\* A job started as soon as it is due, the running cycle not awaited.
RunPendingOverlapping ==
    /\ pc \in {"sleep", "next"}
    /\ periodic' = TRUE
    /\ idx' = 1
    /\ pc' = "ticker"
    /\ events' = <<>>
    /\ done' = <<>>
    /\ chain_data' = None
    /\ maxchange_data' = None
    /\ UNCHANGED <<store, open_conns, call, tx, config, clock, startup_alerts, fetched>>

\* while True: schedule.run_pending(); time.sleep(1) -- the job is due.
RunPending ==
    /\ pc = "sleep"
    /\ periodic' = TRUE
    /\ idx' = 1
    /\ pc' = "ticker"
    /\ events' = <<>>
    /\ done' = <<>>
    /\ chain_data' = None
    /\ maxchange_data' = None
    /\ UNCHANGED <<store, open_conns, call, tx, config, clock, startup_alerts, fetched>>

Next == Main \/ ProcessTicker \/ NextTicker \/ RunPending

Spec == Init /\ [][Next]_vars

(***************************************************************************)
(* Properties of the scheduler (Spec).  When pc is "next" or "sleep" the    *)
(* events are the whole processing of the ticker Ticker.                    *)
(***************************************************************************)
Processed == pc \in {"next", "sleep"}

Gets(evs, what) ==
    LET Test(e) == e.ev = "get" /\ e.what = what IN SelectSeq(evs, Test)
Alerts(evs) ==
    LET Test(e) == e.ev = "alert" IN SelectSeq(evs, Test)
AlertPosts(evs) ==
    LET Test(e) == e.ev = "post" /\ e.what = "alert" IN SelectSeq(evs, Test)
ImagePosts(evs) ==
    LET Test(e) == e.ev = "post" /\ e.what = "image" IN SelectSeq(evs, Test)
Generations(evs) ==
    LET Test(e) == e.ev = "generate_and_send" IN SelectSeq(evs, Test)

\* An exception has left the chain step.
ChainStepRaised(evs) ==
    \E p \in 1..Len(evs) :
        /\ evs[p].what = "chain" /\ evs[p].ev \in {"get", "json", "cache"}
        /\ evs[p].result \in {"exc", "raised"}

\* The cycle takes the tickers in the order of SCHEDULER_TICKERS and, once it
\* sleeps, has processed every one of them.
CycleCoversTickers ==
    /\ pc \in {"ticker", "next"} => Len(done) = idx - 1
    /\ pc = "sleep" => Len(done) = Len(SCHEDULER_TICKERS)
    /\ \A i \in 1..Len(done) : done[i].ticker = SCHEDULER_TICKERS[i]

\* C3 Scheduler cycle isolation: a ticker whose chain fetch answers a non-200
\* status still has its max-change fetch issued and gets no dashboard
\* generation or publish call; the cycle then goes on to the next ticker,
\* whose chain fetch, max-change fetch and dashboard step (one
\* generate_and_send per webhook when both bodies are there) run whatever
\* the earlier tickers' results were.
C3_CycleIsolation ==
    /\ CycleCoversTickers
    /\ Processed =>
         LET chain == Gets(events, "chain")
             maxchange == Gets(events, "maxchange")
         IN  /\ Len(chain) = 1 /\ events[1] = chain[1] /\ chain[1].ticker = Ticker
             /\ chain[1].result \notin {"200", "exc"} =>
                   /\ Len(maxchange) = 1
                   /\ Generations(events) = <<>>
                   /\ ImagePosts(events) = <<>>
             /\ Len(maxchange) = (IF ChainStepRaised(events) THEN 0 ELSE 1)
             /\ \A i \in 1..Len(maxchange) : maxchange[i].ticker = Ticker
             /\ (/\ chain[1].result = "200" /\ chain_data = Some(ChainPayload(1, 1))
                 /\ Len(maxchange) = 1 /\ maxchange[1].result = "200"
                 /\ maxchange_data = Some(MaxchangePayload(1, 1)))
                => /\ Len(Generations(events)) = Len(DISCORD_WEBHOOKS)
                   /\ \A k \in 1..Len(DISCORD_WEBHOOKS) :
                         /\ Generations(events)[k].url = DISCORD_WEBHOOKS[k]
                         /\ Generations(events)[k].ticker = Ticker

\* C3 witness: the first ticker's chain fetch answered a non-200 status and
\* the second ticker has been fetched twice with 200 and published.
C3_SecondTickerPublished ==
    /\ pc = "next" /\ idx = 2
    /\ done[1].chain = "error"
    /\ \E e \in 1..Len(events) :
          events[e].ev = "get" /\ events[e].what = "chain" /\ events[e].result = "200"
    /\ \E e \in 1..Len(events) :
          events[e].ev = "get" /\ events[e].what = "maxchange" /\ events[e].result = "200"
    /\ Len(DISCORD_WEBHOOKS) = 2
    /\ Len(Generations(events)) = 2
    /\ Len(ImagePosts(events)) = 2

\* An event that is an exception being raised, and the function whose except
\* clause catches it.
Raising(e) ==
    \/ e.ev = "get" /\ e.result = "exc"
    \/ e.ev \in {"json", "cache", "render"} /\ e.result = "raised"
    \/ e.ev = "post" /\ e.result = "exc"
CaughtBy(e) ==
    CASE e.ev = "post" /\ e.what = "alert" -> "send_discord_alert"
      [] e.ev = "post" /\ e.what = "image" -> "send_dashboard_to_discord"
      [] e.ev = "render" -> "generate_and_send"
      [] OTHER -> "fetch_and_cache_ticker"

\* No exception leaves the processing of a ticker: the processing starts with
\* the ticker's chain fetch, concerns that ticker only, every exception raised
\* in it is caught, and the cycle covers every ticker.
NoExceptionEscapes ==
    /\ CycleCoversTickers
    /\ Processed =>
         /\ events # <<>>
         /\ events[1].ev = "get" /\ events[1].what = "chain"
         /\ \A p \in 1..Len(events) :
               /\ events[p].ticker = Ticker
               /\ Raising(events[p]) =>
                     /\ p < Len(events)
                     /\ events[p + 1].ev = "caught"
                     /\ events[p + 1].what = CaughtBy(events[p])

\* C5 (as stated) One ticker's failures are contained: under every
\* combination of failures fetch_cache_and_generate ends without raising,
\* having issued a chain fetch for every ticker, and each caught exception
\* results in an alert attempt naming that ticker.
C5_EveryCaughtExceptionAlerts ==
    /\ NoExceptionEscapes
    /\ Processed =>
         \A p \in 1..Len(events) :
            events[p].ev = "caught" =>
               \E q \in (p + 1)..Len(events) :
                  events[q].ev = "alert" /\ events[q].ticker = events[p].ticker

\* C5 (amended) One ticker's failures are contained: under every combination
\* of failures fetch_cache_and_generate ends without raising, having issued a
\* chain fetch for every ticker, and each exception caught by the except
\* clause of fetch_and_cache_ticker is followed at once by an alert call
\* naming that ticker (the exceptions caught inside the cache writers,
\* send_discord_alert, generate_and_send and send_dashboard_to_discord are
\* logged only).
C5_UnhandledExceptionAlerts ==
    /\ NoExceptionEscapes
    /\ Processed =>
         \A p \in 1..Len(events) :
            (events[p].ev = "caught" /\ events[p].what = "fetch_and_cache_ticker") =>
               /\ p < Len(events)
               /\ events[p + 1].ev = "alert"
               /\ events[p + 1].what = "exception"
               /\ events[p + 1].ticker = Ticker

\* C5 witness: the cycle has ended although the first ticker's chain request
\* raised and, for the last ticker, an exception reached the except clause of
\* fetch_and_cache_ticker and an alert post raised as well.
C5_CycleEndedDespiteFailures ==
    /\ pc = "sleep" /\ Len(done) = 2
    /\ done[1].chain = "raised"
    /\ \E p, q \in 1..Len(events) :
          /\ events[p].ev = "caught" /\ events[p].what = "fetch_and_cache_ticker"
          /\ events[q].ev = "caught" /\ events[q].what = "send_discord_alert"

\* The index of a URL in the configured list.
HookIndex(url) == CHOOSE i \in 1..Len(DISCORD_WEBHOOKS) : DISCORD_WEBHOOKS[i] = url

\* Every send_discord_alert call posts once to every webhook, in list order,
\* and each post ends as its endpoint makes it end.
AlertFanOut ==
    LET n == Len(DISCORD_WEBHOOKS)
        posts == AlertPosts(events)
    IN  /\ Len(posts) = n * Len(Alerts(events))
        /\ \A k \in 1..Len(posts) :
              LET i == ((k - 1) % n) + 1
              IN  /\ posts[k].url = DISCORD_WEBHOOKS[i]
                  /\ posts[k].result = webhook_mode[i]
                  /\ posts[k].ticker = Alerts(events)[((k - 1) \div n) + 1].ticker

\* The dashboard step runs when both bodies are there, and then calls
\* generate_and_send once per webhook in list order.
DashboardStepRan == Processed /\ Truthy(chain_data) /\ Truthy(maxchange_data)

\* C8 (as stated) Webhook fan-out independence: one send_discord_alert call,
\* and one dashboard step of a cycle, makes exactly one delivery attempt to
\* every configured webhook, in list order, whatever the other webhooks do.
C8_OneAttemptPerWebhook ==
    /\ AlertFanOut
    /\ DashboardStepRan =>
         LET posts == ImagePosts(events)
         IN  /\ Len(posts) = Len(DISCORD_WEBHOOKS)
             /\ \A k \in 1..Len(posts) :
                   /\ posts[k].url = DISCORD_WEBHOOKS[k]
                   /\ posts[k].result = webhook_mode[k]

\* C8 (amended) Webhook fan-out independence: one send_discord_alert call
\* makes exactly one delivery attempt to every configured webhook, in list
\* order; one dashboard step calls generate_and_send once for every
\* configured webhook, in list order, and that call makes exactly one
\* delivery attempt when is_market_hours() is true at the call and the image
\* renders, and none otherwise; a failure at one webhook neither skips nor
\* changes the outcome of the attempts to the webhooks after it.
C8_FanOutIndependence ==
    /\ AlertFanOut
    /\ Processed =>
         LET n == Len(DISCORD_WEBHOOKS)
             gens == Generations(events)
             posts == ImagePosts(events)
             Rendered(url) == \E p \in 1..Len(events) :
                                 /\ events[p].ev = "render" /\ events[p].url = url
                                 /\ events[p].result = "ok"
             Attempts(url) == {k \in 1..Len(posts) : posts[k].url = url}
         IN  /\ Len(gens) = (IF DashboardStepRan THEN n ELSE 0)
             /\ \A k \in 1..Len(gens) :
                   /\ gens[k].url = DISCORD_WEBHOOKS[k]
                   /\ Cardinality(Attempts(gens[k].url)) =
                         (IF gens[k].what = "open" /\ Rendered(gens[k].url)
                          THEN 1 ELSE 0)
             /\ \A k \in 1..Len(posts) :
                   /\ posts[k].url \in {gens[i].url : i \in 1..Len(gens)}
                   /\ posts[k].result = webhook_mode[HookIndex(posts[k].url)]
                   /\ \A j \in 1..(k - 1) :
                         HookIndex(posts[j].url) < HookIndex(posts[k].url)

\* C8 witness: with two webhooks of which the first raises and the second
\* answers 204, an alert and a dashboard step have each attempted both.
C8_BothAttemptedAfterFailure ==
    /\ pc = "next"
    /\ Len(DISCORD_WEBHOOKS) = 2
    /\ webhook_mode = <<"exc", "204">>
    /\ Len(AlertPosts(events)) = 2
    /\ AlertPosts(events)[2].result = "204"
    /\ Len(ImagePosts(events)) = 2
    /\ ImagePosts(events)[2].result = "204"

\* The state part of the startup ordering.
StartupState ==
    /\ startup_alerts <= 1
    /\ pc = "main" => startup_alerts = 0 /\ ~fetched
    /\ fetched => DB_URL /\ startup_alerts = 1
    /\ ~DB_URL => pc \in {"main", "exited"}
    /\ pc = "exited" =>
         /\ ~DB_URL /\ startup_alerts = 0 /\ ~fetched
         /\ StoreEmpty
         /\ events = <<E("exit", "", "", "", "1")>>
    /\ (DB_URL /\ pc # "main") => startup_alerts = 1

\* The step part: with DB_URL set the main block sends the startup alert and
\* enters the first cycle at its first ticker, before any fetch; no other
\* step sends a startup alert.
StartupStep ==
    /\ (pc = "main" /\ DB_URL) =>
          /\ startup_alerts' = 1
          /\ events'[1] = E("alert", "", "started", "", "")
          /\ pc' = "ticker" /\ idx' = 1 /\ ~periodic'
          /\ ~fetched /\ ~fetched'
    /\ pc # "main" => startup_alerts' = startup_alerts
    /\ periodic => periodic'

\* C10 Scheduler startup ordering: with DATABASE_URL unset the process exits
\* with status 1 before any alert, upstream request or store operation;
\* otherwise (GEXBOT_API_KEY set or not) exactly one startup alert is sent,
\* before the first upstream fetch, the first cycle runs right after it, and
\* no further startup alert is sent while the periodic loop repeats the cycle.
C10_StartupOrdering == []StartupState /\ [][StartupStep]_vars

\* C10 witness: without an API key a periodic cycle has completed, one
\* startup alert having been sent.
C10_PeriodicCycleWithoutKey ==
    /\ DB_URL /\ ~API_KEY
    /\ periodic /\ pc = "sleep"
    /\ fetched /\ startup_alerts = 1

AllTables == {gex_snapshots, gex_major_levels, gex_max_change}

\* C11 Only quick tickers are stored: whatever SCHEDULER_TICKERS names, every
\* row of gex_snapshots, gex_major_levels and gex_max_change has a ticker of
\* the allow-list.
C11_OnlyQuickTickersStored ==
    \A table \in AllTables : \A r \in Rows(table) : r.ticker \in QUICK_TICKERS

\* C12 A raising chain step does not stop the ticker: when the chain fetch
\* raises (request exception, unparsable body, exception leaving the chain
\* cache write) an alert naming the ticker is sent and the max-change fetch of
\* the ticker is still made.
C12_MaxchangeFetchedAfterException ==
    (Processed /\ ChainStepRaised(events)) =>
        /\ \E p \in 1..Len(events) :
              events[p].ev = "alert" /\ events[p].ticker = Ticker
        /\ Len(Gets(events, "maxchange")) = 1

\* The request "what" of the ticker answered 200 and its body was parsed.
Parsed(evs, what) ==
    /\ \E p \in 1..Len(evs) :
          evs[p].ev = "get" /\ evs[p].what = what /\ evs[p].result = "200"
    /\ ~\E p \in 1..Len(evs) :
          evs[p].ev = "json" /\ evs[p].what = what /\ evs[p].result = "raised"

\* C13 Dashboard gating: generate_and_send is invoked for the ticker and a
\* webhook exactly when both fetches of the ticker answered 200 with a parsed
\* body (an empty object included) and the webhook is configured; an
\* invocation outside market hours renders nothing and posts nothing.
C13_DashboardIffBothParsed ==
    Processed =>
        LET gens == Generations(events)
            both == Parsed(events, "chain") /\ Parsed(events, "maxchange")
        IN  /\ Len(gens) = (IF both THEN Len(DISCORD_WEBHOOKS) ELSE 0)
            /\ \A k \in 1..Len(gens) :
                  /\ gens[k].url = DISCORD_WEBHOOKS[k]
                  /\ gens[k].ticker = Ticker
                  /\ gens[k].what = "closed" =>
                        ~\E p \in 1..Len(events) :
                            /\ events[p].url = gens[k].url
                            /\ \/ events[p].ev = "render"
                               \/ events[p].ev = "post" /\ events[p].what = "image"

\* The position of an event in the processing of a ticker: the chain step,
\* the max-change step, the dashboard step.
Phase(e) ==
    CASE e.ev \in {"generate_and_send", "render"} -> 3
      [] e.ev \in {"post", "caught"} /\ e.what \in {"image", "generate_and_send",
                                                  "send_dashboard_to_discord"} -> 3
      [] e.ev \in {"get", "json", "cache"} /\ e.what = "maxchange" -> 2
      [] e.ev \in {"get", "json", "cache"} /\ e.what = "chain" -> 1
      [] OTHER -> 0

\* Within a ticker: the chain fetch first, then the max-change fetch, then the
\* dashboard calls, all of them events of that ticker; before a ticker is
\* taken up nothing of it has happened.
OrderWithinTicker ==
    /\ Processed =>
         /\ \A p \in 1..Len(events) : events[p].ticker = Ticker
         /\ \A p, q \in 1..Len(events) :
               (Phase(events[p]) > 0 /\ Phase(events[q]) > Phase(events[p])) => p < q
         /\ \E p \in 1..Len(events) :
               events[p].ev = "get" /\ events[p].what = "chain"
    /\ (pc = "ticker" /\ (idx > 1 \/ periodic)) => events = <<>>

\* From one state to the next: a ticker is finished before the next one is
\* taken up, in the order of the list, and a cycle starts only when the
\* cycle before it has finished every ticker.
OrderOfTickers ==
    /\ idx' # idx =>
          \/ pc = "next" /\ idx' = idx + 1 /\ idx' <= Len(SCHEDULER_TICKERS)
          \/ pc \in {"main", "sleep"} /\ idx' = 1
    /\ done' # done =>
          \/ /\ pc = "next"
             /\ Len(done') = Len(done) + 1
             /\ done'[Len(done')].ticker = SCHEDULER_TICKERS[Len(done')]
             /\ Len(done') = idx
          \/ /\ pc = "sleep" /\ done' = <<>>
             /\ Len(done) = Len(SCHEDULER_TICKERS)
    /\ (pc = "next" /\ pc' = "ticker") => idx' = idx + 1 /\ events' = <<>>
    /\ pc = "ticker" => pc' \in {"ticker", "next"}

\* C17 Event ordering: tickers are processed in the order of
\* SCHEDULER_TICKERS; for each ticker the chain fetch precedes the max-change
\* fetch, which precedes every dashboard generation of the ticker; all of a
\* ticker's requests and dashboard calls are over before the next ticker's
\* chain fetch; cycles never overlap.
C17_EventOrdering == []OrderWithinTicker /\ [][OrderOfTickers]_vars

\* C17 witness: in a periodic cycle the second ticker has been fetched twice
\* and published.
C17_SecondTickerOfPeriodicCycle ==
    /\ periodic /\ pc = "next" /\ idx = 2
    /\ Len(Gets(events, "chain")) = 1 /\ Len(Gets(events, "maxchange")) = 1
    /\ Len(ImagePosts(events)) >= 1
====
